---- MODULE Spec2Model ----
(***************************************************************************)
(* A model of nsot/models.py: the networks table with its unique index,    *)
(* the unit-of-work session (pending objects, flush, commit, rollback),    *)
(* and Network.create with its supernet lookup and reparenting, run by     *)
(* several sessions against one store.                                     *)
(*                                                                         *)
(* Addresses are AddrBits wide instead of 32 / 128 bits; a CIDR is the     *)
(* pair <<address, prefix length>>.  The store gives read-committed        *)
(* visibility (a statement sees the committed rows and the session's own   *)
(* uncommitted writes), row locks taken one row at a time by               *)
(* SELECT ... FOR UPDATE and by UPDATE, held until commit or rollback.     *)
(***************************************************************************)
EXTENDS Integers, Sequences, FiniteSets, TLC

\* ------------------------------------------------------------- bounds
\* Width of an address in bits (32 or 128 in ipaddress).
AddrBits == 2
\* Number of site ids in use.
NumSites == 2
\* Number of rows the autoincrement key of networks hands out.
MaxCreates == 4

\* parent_id of a root network (nullable column).
NULL == 0

Sessions == {1, 2}
SiteIds == 1..NumSites
\* Site.name is unique; the names callers use.
SiteNames == {"hq", "lab"}
\* ip_version = Column(Enum("4", "6"))
Versions == {4, 6}
Addresses == 0..(2^AddrBits - 1)
PrefixLengths == 0..AddrBits
\* What a caller may pass as attributes: a dict of strings, a non-dict,
\* a dict with a non-string key or value.
AttributeInputs == {"dict", "notdict", "badvalue"}

VARIABLES
    networks,      \* committed rows of table networks
    sites,         \* committed rows of table sites, by their unique name
    nextId,        \* next value of networks.id
    pc,            \* per session: where its Network.create stands
    obj,           \* per session: the row its create has flushed, uncommitted
    upd,           \* per session: ids its uncommitted UPDATE re-pointed to obj
    locks,         \* per session: ids of the rows it holds locked
    new,           \* per session: objects added and not yet flushed (session.new)
    flushed,       \* per session: site rows flushed and not yet committed
    last,          \* per session: how its last Network.create call ended
    _attributes,   \* the attributes column of one Network instance, as text
    ret            \* how the last call of a session or model helper ended

vars == <<networks, sites, nextId, pc, obj, upd, locks, new, flushed, last,
          _attributes, ret>>

\* ------------------------------------------------------------- rows
NoObj == [id |-> NULL]

\* Network._attributes of an instance whose attributes were never set.
NoText == <<>>

\* The record of a helper's call before any call was made.
NoRet == [op |-> "none", error |-> "none"]

\* The record of a call: how it ended, the exception and where it was
\* raised, the id of the row it flushed, and the committed tables and the
\* session's pending objects as the call found them.
NoCall == [status |-> "none", error |-> "none", at |-> "none", id |-> NULL,
           key |-> <<>>, moved |-> {},
           pre |-> {}, preSites |-> {}, preNew |-> {}]

\* ipaddress.ip_network(cidr) is strict: host bits set raise ValueError.
ParseOk(addr, plen) == addr % (2^(AddrBits - plen)) = 0

BroadcastOf(addr, plen) == addr + 2^(AddrBits - plen) - 1

\* The kwargs of Network.create, as a row with a primary key.
NewRow(id, site, ver, addr, plen) ==
    [id |-> id, site_id |-> site, ip_version |-> ver, parent_id |-> NULL,
     network_address |-> addr, broadcast_address |-> BroadcastOf(addr, plen),
     prefix_length |-> plen, is_ip |-> (addr = BroadcastOf(addr, plen))]

\* The columns of the unique index cidr_idx.
KeyOf(r) == <<r.site_id, r.ip_version, r.network_address, r.prefix_length>>

\* The attributes setter: TypeError for a non-dict, ValueError for a
\* non-string key or value.
AttributesOk(a) == a = "dict"

\* ------------------------------------------------------------- queries
\* supernets(discover_mode=True): the filter of the general query.
SupernetsQuery(rows, o) ==
    {r \in rows : /\ r.is_ip = FALSE
                  /\ r.ip_version = o.ip_version
                  /\ r.prefix_length < o.prefix_length
                  /\ r.network_address <= o.network_address
                  /\ r.broadcast_address >= o.broadcast_address}

\* min in place of max: the loosest supernet.
MaxPrefixFlipped(found) ==
    {p \in found : \A q \in found : q.prefix_length >= p.prefix_length}

\* max(supernets, key=attrgetter("prefix_length")): any row of the result
\* with the largest prefix_length (the result has no ORDER BY).
MaxPrefix(found) ==
    {p \in found : \A q \in found : q.prefix_length <= p.prefix_length}

\* The UPDATE without the filter on parent_id.
ReparentQueryAnyParent(rows, o) ==
    {r \in rows :
        /\ r.id # o.id
        /\ (o.parent_id = NULL =>
               /\ r.is_ip = FALSE
               /\ r.ip_version = o.ip_version
               /\ r.prefix_length > o.prefix_length
               /\ r.network_address >= o.network_address
               /\ r.broadcast_address <= o.broadcast_address)}

\* reparent_subnets: the rows the UPDATE matches.
ReparentQuery(rows, o) ==
    {r \in rows :
        /\ r.parent_id = o.parent_id
        /\ r.id # o.id
        /\ (o.parent_id = NULL =>
               /\ r.is_ip = FALSE
               /\ r.ip_version = o.ip_version
               /\ r.prefix_length > o.prefix_length
               /\ r.network_address >= o.network_address
               /\ r.broadcast_address <= o.broadcast_address)}

\* query.update({Network.parent_id: self.id}) on the rows with these ids.
SetParent(rows, ids, id) ==
    {IF r.id \in ids THEN [r EXCEPT !.parent_id = id] ELSE r : r \in rows}

\* ------------------------------------------------------------- store
InFlight(s) == obj[s] # NoObj

\* What a statement of session s reads: the committed rows, with the
\* session's own uncommitted INSERT and UPDATE applied.
Visible(s) ==
    SetParent(networks, upd[s], obj[s].id)
        \cup (IF InFlight(s) THEN {obj[s]} ELSE {})

LockedByOther(s, id) == \E t \in Sessions \ {s} : id \in locks[t]

\* An index that is not unique never refuses an INSERT.
NoUniqueIndex(s, row) == FALSE

\* The unique indexes (cidr_idx on networks, name on sites) against the
\* committed rows: the INSERT of the flush raises IntegrityError.

FlushConflict(s, row) ==
    \/ \E r \in networks : KeyOf(r) = KeyOf(row)
    \/ new[s] \cap sites # {}

\* The unique indexes against another session's uncommitted INSERT: the
\* INSERT waits for that session to commit or roll back.
FlushBlocked(s, row) ==
    \E t \in Sessions \ {s} :
        \/ InFlight(t) /\ KeyOf(obj[t]) = KeyOf(row)
        \/ new[s] \cap flushed[t] # {}

\* A commit in place of the rollback: the flushed rows stay.
RollbackKeepsRow(s) ==
    /\ networks' = networks \cup (IF InFlight(s) THEN {obj[s]} ELSE {})
    /\ sites' = sites \cup flushed[s]
    /\ obj' = [obj EXCEPT ![s] = NoObj]
    /\ upd' = [upd EXCEPT ![s] = {}]
    /\ locks' = [locks EXCEPT ![s] = {}]
    /\ new' = [new EXCEPT ![s] = {}]
    /\ flushed' = [flushed EXCEPT ![s] = {}]

\* The transaction ended without session.rollback(): the session keeps its
\* pending objects.
RollbackSkipped(s) ==
    /\ obj' = [obj EXCEPT ![s] = NoObj]
    /\ upd' = [upd EXCEPT ![s] = {}]
    /\ locks' = [locks EXCEPT ![s] = {}]
    /\ UNCHANGED <<networks, sites, new, flushed>>

\* session.rollback(): the uncommitted writes and the pending objects of
\* the session are dropped and its locks released.
Rollback(s) ==
    /\ obj' = [obj EXCEPT ![s] = NoObj]
    /\ upd' = [upd EXCEPT ![s] = {}]
    /\ locks' = [locks EXCEPT ![s] = {}]
    /\ new' = [new EXCEPT ![s] = {}]
    /\ flushed' = [flushed EXCEPT ![s] = {}]
    /\ UNCHANGED <<networks, sites>>

Raised(s, error, at, key) ==
    [status |-> "raised", error |-> error, at |-> at, id |-> NULL,
     key |-> key, moved |-> {},
     pre |-> networks, preSites |-> sites, preNew |-> new[s]]

\* ------------------------------------------------------------- actions
Init ==
    /\ networks = {}
    /\ sites = {}
    /\ nextId = 1
    /\ pc = [s \in Sessions |-> "idle"]
    /\ obj = [s \in Sessions |-> NoObj]
    /\ upd = [s \in Sessions |-> {}]
    /\ locks = [s \in Sessions |-> {}]
    /\ new = [s \in Sessions |-> {}]
    /\ flushed = [s \in Sessions |-> {}]
    /\ last = [s \in Sessions |-> NoCall]
    /\ _attributes = NoText
    /\ ret = NoRet

\* Site(name=n).add(session): Model.add registers the object as pending.
SiteAdd(s, n) ==
    /\ pc[s] = "idle"
    /\ n \notin new[s]
    /\ new' = [new EXCEPT ![s] = @ \cup {n}]
    /\ last' = [last EXCEPT ![s] = NoCall]
    /\ UNCHANGED <<networks, sites, nextId, pc, obj, upd, locks, flushed>>
    /\ UNCHANGED <<_attributes, ret>>

\* Network.create, line 259: ip_network(cidr) raises before the try block.
CreateParseError(s, addr, plen) ==
    /\ pc[s] = "idle"
    /\ ~ParseOk(addr, plen)
    /\ last' = [last EXCEPT ![s] = Raised(s, "ValueError", "parse", <<>>)]
    /\ UNCHANGED <<networks, sites, nextId, pc, obj, upd, locks, new, flushed>>
    /\ UNCHANGED <<_attributes, ret>>

\* Network.create, line 276: cls(**kwargs) runs the attributes setter
\* inside the try block; its error is caught, rolled back and re-raised.
CreateBadAttributes(s, addr, plen, attrs) ==
    /\ pc[s] = "idle"
    /\ ParseOk(addr, plen)
    /\ ~AttributesOk(attrs)
    /\ last' = [last EXCEPT ![s] =
                   Raised(s, IF attrs = "notdict" THEN "TypeError"
                                                  ELSE "ValueError", "try", <<>>)]
    /\ Rollback(s)
    /\ UNCHANGED <<nextId, pc>>
    /\ UNCHANGED <<_attributes, ret>>

\* Network.create, lines 277-279 when the flush raises IntegrityError.
CreateDuplicate(s, site, ver, addr, plen) ==
    /\ pc[s] = "idle"
    /\ ParseOk(addr, plen)
    /\ FlushConflict(s, NewRow(nextId, site, ver, addr, plen))
    /\ last' = [last EXCEPT ![s] = Raised(s, "IntegrityError", "try",
                          KeyOf(NewRow(nextId, site, ver, addr, plen)))]
    /\ Rollback(s)
    /\ UNCHANGED <<nextId, pc>>
    /\ UNCHANGED <<_attributes, ret>>

\* Network.create, lines 276-279: construct, add, flush.  The flush writes
\* the pending objects and the new row, which gets its primary key.
CreateFlush(s, site, ver, addr, plen) ==
    /\ pc[s] = "idle"
    /\ nextId <= MaxCreates
    /\ ParseOk(addr, plen)
    /\ ~FlushConflict(s, NewRow(nextId, site, ver, addr, plen))
    /\ ~FlushBlocked(s, NewRow(nextId, site, ver, addr, plen))
    /\ obj' = [obj EXCEPT ![s] = NewRow(nextId, site, ver, addr, plen)]
    /\ nextId' = nextId + 1
    /\ flushed' = [flushed EXCEPT ![s] = new[s]]
    /\ new' = [new EXCEPT ![s] = {}]
    /\ pc' = [pc EXCEPT ![s] = "flushed"]
    /\ last' = [last EXCEPT ![s] =
                   [status |-> "running", error |-> "none", at |-> "none",
                    id |-> nextId,
                    key |-> KeyOf(NewRow(nextId, site, ver, addr, plen)),
                    moved |-> {},
                    pre |-> networks, preSites |-> sites, preNew |-> new[s]]]
    /\ UNCHANGED <<networks, sites, upd, locks>>
    /\ UNCHANGED <<_attributes, ret>>

\* supernets(for_update=True), line 281: the query locks one more of the
\* rows it matches, waiting while another session holds that row.
LockSupernet(s, r) ==
    /\ pc[s] = "flushed"
    /\ r \in SupernetsQuery(Visible(s), obj[s])
    /\ r.id \notin locks[s]
    /\ ~LockedByOther(s, r.id)
    /\ locks' = [locks EXCEPT ![s] = @ \cup {r.id}]
    /\ UNCHANGED <<networks, sites, nextId, pc, obj, upd, new, flushed, last>>
    /\ UNCHANGED <<_attributes, ret>>

\* Lines 281-284: the query returns once every matching row is locked;
\* the tightest supernet, if any, becomes the parent.
SelectParent(s) ==
    LET found == SupernetsQuery(Visible(s), obj[s]) IN
    /\ pc[s] = "flushed"
    /\ \A r \in found : r.id \in locks[s]
    /\ \/ /\ found = {}
          /\ obj' = obj
       \/ \E p \in MaxPrefix(found) :
              obj' = [obj EXCEPT ![s].parent_id = p.id]
    /\ pc' = [pc EXCEPT ![s] = "placed"]
    /\ UNCHANGED <<networks, sites, nextId, upd, locks, new, flushed, last>>
    /\ UNCHANGED <<_attributes, ret>>

\* reparent_subnets, line 252: the UPDATE locks one more of the rows it
\* matches, waiting while another session holds that row.
LockSubnet(s, r) ==
    /\ pc[s] = "placed"
    /\ r \in ReparentQuery(Visible(s), obj[s])
    /\ r.id \notin locks[s]
    /\ ~LockedByOther(s, r.id)
    /\ locks' = [locks EXCEPT ![s] = @ \cup {r.id}]
    /\ UNCHANGED <<networks, sites, nextId, pc, obj, upd, new, flushed, last>>
    /\ UNCHANGED <<_attributes, ret>>

\* reparent_subnets, line 252: the UPDATE writes parent_id of every row it
\* matches.
Reparent(s) ==
    LET found == ReparentQuery(Visible(s), obj[s]) IN
    /\ pc[s] = "placed"
    /\ \A r \in found : r.id \in locks[s]
    /\ upd' = [upd EXCEPT ![s] = {r.id : r \in found}]
    /\ pc' = [pc EXCEPT ![s] = "reparented"]
    /\ UNCHANGED <<networks, sites, nextId, obj, locks, new, flushed, last>>
    /\ UNCHANGED <<_attributes, ret>>

\* session.commit(), line 287.
Commit(s) ==
    /\ pc[s] = "reparented"
    /\ networks' = Visible(s)
    /\ sites' = sites \cup flushed[s]
    /\ obj' = [obj EXCEPT ![s] = NoObj]
    /\ upd' = [upd EXCEPT ![s] = {}]
    /\ locks' = [locks EXCEPT ![s] = {}]
    /\ flushed' = [flushed EXCEPT ![s] = {}]
    /\ pc' = [pc EXCEPT ![s] = "idle"]
    /\ last' = [last EXCEPT ![s].status = "ok"]
    /\ UNCHANGED <<nextId, new>>
    /\ UNCHANGED <<_attributes, ret>>

\* Lines 288-290: a statement of the try block raises after the flush (a
\* lock wait timeout, a lost connection); rollback, then re-raise.
StoreError(s) ==
    /\ pc[s] \in {"flushed", "placed", "reparented"}
    /\ last' = [last EXCEPT ![s] =
                   [@ EXCEPT !.status = "raised", !.error = "OperationalError",
                              !.at = "try", !.moved = upd[s]]]
    /\ Rollback(s)
    /\ pc' = [pc EXCEPT ![s] = "idle"]
    /\ UNCHANGED nextId
    /\ UNCHANGED <<_attributes, ret>>

\* ------------------------------------------------------------- session helpers
\* Site.name is unique: a pending site against the committed rows (the
\* INSERT raises IntegrityError) and against another session's uncommitted
\* INSERT (the INSERT waits).
PendingConflict(s, pending) == pending \cap sites # {}

PendingBlocked(s, pending) ==
    \E t \in Sessions \ {s} : pending \cap flushed[t] # {}

\* What a call found: the committed sites and the session's pending and
\* flushed objects.
Found(s) == [preSites |-> sites, preNew |-> new[s], preFlushed |-> flushed[s]]

\* The session as a helper that touches nothing but new and flushed leaves
\* the rest of it.
SessionOnly == UNCHANGED <<networks, sites, nextId, pc, obj, upd, locks, last,
                           _attributes>>

\* The overrides registering their arguments before they raise, as
\* _Session.add and _Session.add_all would.
SessionAddRegisters(s, method, objs) ==
    /\ pc[s] = "idle"
    /\ ret' = [op |-> method, session |-> s, error |-> "NotImplementedError",
               args |-> objs, found |-> Found(s)]
    /\ new' = [new EXCEPT ![s] = @ \cup objs]
    /\ UNCHANGED flushed
    /\ SessionOnly

\* Session.add(*args, **kwargs) and Session.add_all(*args, **kwargs), lines
\* 33-37, called with the objects objs: raise NotImplementedError.
SessionAdd(s, method, objs) ==
    /\ pc[s] = "idle"
    /\ ret' = [op |-> method, session |-> s, error |-> "NotImplementedError",
               args |-> objs, found |-> Found(s)]
    /\ UNCHANGED <<new, flushed>>
    /\ SessionOnly

\* Model.add, lines 61-63: session._add(self); return self.
ModelAdd(s, n) ==
    /\ pc[s] = "idle"
    /\ n \notin new[s]
    /\ new' = [new EXCEPT ![s] = @ \cup {n}]
    /\ ret' = [op |-> "Model.add", session |-> s, error |-> "none",
               arg |-> n, value |-> n, found |-> Found(s)]
    /\ UNCHANGED flushed
    /\ SessionOnly

\* session.commit() by the caller: flush what is pending, then commit.
SessionCommit(s) ==
    /\ pc[s] = "idle"
    /\ ~PendingBlocked(s, new[s])
    /\ IF PendingConflict(s, new[s])
       THEN /\ Rollback(s)
            /\ ret' = [op |-> "commit", session |-> s,
                       error |-> "IntegrityError", found |-> Found(s)]
       ELSE /\ sites' = sites \cup flushed[s] \cup new[s]
            /\ new' = [new EXCEPT ![s] = {}]
            /\ flushed' = [flushed EXCEPT ![s] = {}]
            /\ ret' = [op |-> "commit", session |-> s, error |-> "none",
                       found |-> Found(s)]
            /\ UNCHANGED <<networks, obj, upd, locks>>
    /\ UNCHANGED <<nextId, pc, last, _attributes>>

\* ------------------------------------------------------------- flush_transaction
\* The keyword arguments of a call, as <<name, value>> pairs.
KwargsInputs ==
    {{}, {<<"force", TRUE>>}, {<<"dryrun", TRUE>>}, {<<"dryrun", FALSE>>},
     {<<"force", TRUE>>, <<"dryrun", TRUE>>}}

\* What the wrapped method may return.
MethodResults == {"done", "skipped"}

\* kwargs.get(key, default): the key stays in kwargs.
KwargsGet(kwargs, key, default) ==
    [value |-> IF \E a \in kwargs : a[1] = key
               THEN (CHOOSE a \in kwargs : a[1] = key)[2] ELSE default,
     rest |-> kwargs]

\* kwargs.pop(key, default), line 76.
KwargsPop(kwargs, key, default) ==
    [value |-> IF \E a \in kwargs : a[1] = key
               THEN (CHOOSE a \in kwargs : a[1] = key)[2] ELSE default,
     rest |-> {a \in kwargs : a[1] # key}]

\* The except branch without its rollback: what the method registered
\* stays pending.
ExceptWithoutRollback(s, attached, pending) ==
    /\ new' = [new EXCEPT ![s] = pending]
    /\ UNCHANGED <<networks, sites, obj, upd, locks, flushed>>

\* Lines 83-87: the except branch rolls back when self.session is not None.
Except(s, attached, pending) ==
    IF attached
    THEN Rollback(s)
    ELSE /\ new' = [new EXCEPT ![s] = pending]
         /\ UNCHANGED <<networks, sites, obj, upd, locks, flushed>>

\* The record of a call of a wrapped method.
Wrapped(s, attached, dryrun, passed, adds, result, value, error) ==
    [op |-> "wrapped", session |-> s, attached |-> attached,
     dryrun |-> dryrun, passed |-> {a[1] : a \in passed}, added |-> adds,
     result |-> result, value |-> value, error |-> error, found |-> Found(s)]

\* wrapper, lines 75-88, around a method of an entity that is attached to
\* session s or to none: the method registers the objects adds with the
\* entity's session and then returns result or raises.
FlushTransaction(s, attached, kwargs, adds, raises, result) ==
    LET popped == KwargsPop(kwargs, "dryrun", FALSE)
        dryrun == popped.value
        pending == new[s] \cup adds
    IN
    /\ pc[s] = "idle"
    /\ attached \/ adds = {}
    /\ \/ /\ raises
          /\ Except(s, attached, pending)
          /\ ret' = Wrapped(s, attached, dryrun, popped.rest, adds,
                            "none", "none", "MethodError")
       \/ /\ ~raises /\ ~attached
          \* self.session is None: None.rollback() or None.flush() raises.
          /\ Except(s, attached, pending)
          /\ ret' = Wrapped(s, attached, dryrun, popped.rest, adds,
                            result, "none", "AttributeError")
       \/ /\ ~raises /\ attached /\ dryrun
          /\ Rollback(s)
          /\ ret' = Wrapped(s, attached, dryrun, popped.rest, adds,
                            result, result, "none")
       \/ /\ ~raises /\ attached /\ ~dryrun
          /\ PendingConflict(s, pending)
          /\ Except(s, attached, pending)
          /\ ret' = Wrapped(s, attached, dryrun, popped.rest, adds,
                            result, "none", "IntegrityError")
       \/ /\ ~raises /\ attached /\ ~dryrun
          /\ ~PendingConflict(s, pending)
          /\ ~PendingBlocked(s, pending)
          /\ new' = [new EXCEPT ![s] = {}]
          /\ flushed' = [flushed EXCEPT ![s] = @ \cup pending]
          /\ ret' = Wrapped(s, attached, dryrun, popped.rest, adds,
                            result, result, "none")
          /\ UNCHANGED <<networks, sites, obj, upd, locks>>
    /\ UNCHANGED <<nextId, pc, last, _attributes>>

\* ------------------------------------------------------------- get_or_create
\* A session that does not flush before a query.
AutoflushOff == FALSE

\* Session = sessionmaker(class_=Session), line 40: autoflush keeps its
\* default, so a query first flushes what is pending in the session.
Autoflush == TRUE

\* Site.get_or_create(session, name=n), lines 50-59: the query (after the
\* flush it triggers) sees the committed rows and the session's own
\* flushed ones; an instance is constructed and added when it finds none.
GetOrCreate(s, n) ==
    LET flushing == IF Autoflush THEN new[s] ELSE {}
        view == sites \cup flushed[s] \cup flushing
    IN
    /\ pc[s] = "idle"
    /\ \/ /\ PendingConflict(s, flushing)
          \* The flush raises; the failed flush rolls the transaction back.
          /\ Rollback(s)
          /\ ret' = [op |-> "get_or_create", session |-> s, arg |-> n,
                     error |-> "IntegrityError", found |-> Found(s)]
       \/ /\ ~PendingConflict(s, flushing)
          /\ ~PendingBlocked(s, flushing)
          /\ n \in view
          /\ flushed' = [flushed EXCEPT ![s] = @ \cup flushing]
          /\ new' = [new EXCEPT ![s] = @ \ flushing]
          /\ ret' = [op |-> "get_or_create", session |-> s, arg |-> n,
                     error |-> "none", value |-> n, created |-> FALSE,
                     found |-> Found(s)]
          /\ UNCHANGED <<networks, sites, obj, upd, locks>>
       \/ /\ ~PendingConflict(s, flushing)
          /\ ~PendingBlocked(s, flushing)
          /\ n \notin view
          /\ flushed' = [flushed EXCEPT ![s] = @ \cup flushing]
          /\ new' = [new EXCEPT ![s] = (@ \ flushing) \cup {n}]
          /\ ret' = [op |-> "get_or_create", session |-> s, arg |-> n,
                     error |-> "none", value |-> n, created |-> TRUE,
                     found |-> Found(s)]
          /\ UNCHANGED <<networks, sites, obj, upd, locks>>
    /\ UNCHANGED <<nextId, pc, last, _attributes>>

\* ------------------------------------------------------------- attributes
\* The characters json.dumps escapes, by name.
Quote == "quote"
Backslash == "backslash"

\* The strings callers use as keys and values, as sequences of characters:
\* a plain one, one that is a quote, one that starts with a backslash.
Texts == {<<"a">>, <<Quote>>, <<Backslash, "a">>}

\* The keys and values callers use: strings and an integer.
Scalars ==
    {[type |-> "str", val |-> t] : t \in Texts}
        \cup {[type |-> "int", val |-> <<"1">>]}

\* The dicts callers pass, as sets of <<key, value>> with distinct keys.
AttributeDicts ==
    {{}} \cup {d \in {{i, j} : i, j \in Scalars \X Scalars} :
                  \A i, j \in d : i[1] = j[1] => i = j}

\* What callers pass that is not a dict.
NonDicts == {"list", "str", "None"}

\* A check of the keys alone.
StringKeys(d) == \A i \in d : i[1].type = "str"

\* Lines 153-157: every key and every value is a basestring.
StringItems(d) == \A i \in d : i[1].type = "str" /\ i[2].type = "str"

\* A character written as it is.
EscapeNothing(c) == <<c>>

\* json.dumps writes a quote and a backslash behind a backslash.
Escape(c) == IF c \in {Quote, Backslash} THEN <<Backslash, c>> ELSE <<c>>

RECURSIVE EncodeChars(_)
EncodeChars(t) ==
    IF t = <<>> THEN <<>> ELSE Escape(Head(t)) \o EncodeChars(Tail(t))

\* json.dumps of a key or a value: a string in quotes, an integer bare.
EncodeScalar(x) ==
    IF x.type = "str" THEN <<Quote>> \o EncodeChars(x.val) \o <<Quote>>
    ELSE x.val

\* json.dumps of the items in the order the dict iterates them.
RECURSIVE EncodeItems(_)
EncodeItems(order) ==
    IF order = <<>> THEN <<>>
    ELSE EncodeScalar(Head(order)[1]) \o <<":", " ">>
             \o EncodeScalar(Head(order)[2])
             \o (IF Len(order) > 1 THEN <<",", " ">> ELSE <<>>)
             \o EncodeItems(Tail(order))

JsonDumps(order) == <<"{">> \o EncodeItems(order) \o <<"}">>

\* The orders in which a dict may iterate its items.
ItemOrders(d) ==
    {o \in [1..Cardinality(d) -> d] :
        \A i, j \in 1..Cardinality(d) : i # j => o[i] # o[j]}

\* What json.loads raises on text that is not JSON.
NotJson == [ok |-> FALSE, val |-> <<>>, next |-> 0]

\* json.loads inside a string, from position i: up to the closing quote,
\* taking the character behind a backslash as it is.
RECURSIVE ParseString(_, _, _)
ParseString(text, i, acc) ==
    IF i > Len(text) THEN NotJson
    ELSE IF text[i] = Quote THEN [ok |-> TRUE, val |-> acc, next |-> i + 1]
    ELSE IF text[i] = Backslash
         THEN IF i + 1 <= Len(text) /\ text[i + 1] \in {Quote, Backslash}
              THEN ParseString(text, i + 2, Append(acc, text[i + 1]))
              ELSE NotJson
    ELSE ParseString(text, i + 1, Append(acc, text[i]))

\* A string that opens at position i.
ParseQuoted(text, i) ==
    IF i <= Len(text) /\ text[i] = Quote
    THEN ParseString(text, i + 1, <<>>) ELSE NotJson

\* The position behind the blank at i, if there is one.
SkipBlank(text, i) == IF i <= Len(text) /\ text[i] = " " THEN i + 1 ELSE i

\* json.loads of the members of an object from position i, into the
\* mapping m; a key met again replaces the earlier one.
RECURSIVE ParseMembers(_, _, _)
ParseMembers(text, i, m) ==
    LET key == ParseQuoted(text, i)
        colon == IF key.ok THEN key.next ELSE 0
        value == IF key.ok /\ colon <= Len(text) /\ text[colon] = ":"
                 THEN ParseQuoted(text, SkipBlank(text, colon + 1))
                 ELSE NotJson
        mapping == {e \in m : e[1] # key.val} \cup {<<key.val, value.val>>}
    IN  IF ~value.ok \/ value.next > Len(text) THEN NotJson
        ELSE IF text[value.next] = "}"
             THEN IF value.next = Len(text)
                  THEN [ok |-> TRUE, val |-> mapping, next |-> value.next + 1]
                  ELSE NotJson
        ELSE IF text[value.next] = ","
             THEN ParseMembers(text, SkipBlank(text, value.next + 1), mapping)
        ELSE NotJson

\* json.loads of an object of strings: the mapping as <<key, value>> pairs.
JsonLoads(text) ==
    IF Len(text) < 2 \/ text[1] # "{" THEN NotJson
    ELSE IF text = <<"{", "}">> THEN [ok |-> TRUE, val |-> {}, next |-> 3]
    ELSE ParseMembers(text, 2, {})

\* The mapping a dict of strings stands for.
Plain(d) == {<<i[1].val, i[2].val>> : i \in d}

\* The dict that the instance holds: the one set last without an error.
Held == IF ret.op \in {"set", "get"} THEN ret.held ELSE {}

AttributesOnly ==
    UNCHANGED <<networks, sites, nextId, pc, obj, upd, locks, new, flushed,
                last>>

\* The attributes setter, lines 148-159, given a dict.
AttributesSet(d) ==
    /\ IF StringItems(d)
       THEN /\ \E order \in ItemOrders(d) : _attributes' = JsonDumps(order)
            /\ ret' = [op |-> "set", error |-> "none", kind |-> "dict",
                       input |-> d, held |-> d, before |-> _attributes]
       ELSE /\ _attributes' = _attributes
            /\ ret' = [op |-> "set", error |-> "ValueError", kind |-> "dict",
                       input |-> d, held |-> Held, before |-> _attributes]
    /\ AttributesOnly

\* The attributes setter, lines 150-151, given something that is no dict.
AttributesSetNonDict(kind) ==
    /\ _attributes' = _attributes
    /\ ret' = [op |-> "set", error |-> "TypeError", kind |-> kind,
               input |-> {}, held |-> Held, before |-> _attributes]
    /\ AttributesOnly

\* The attributes getter, lines 144-146, once attributes were set.
AttributesGet ==
    /\ _attributes # NoText
    /\ ret' = [op |-> "get",
               error |-> IF JsonLoads(_attributes).ok THEN "none"
                         ELSE "ValueError",
               value |-> JsonLoads(_attributes).val,
               held |-> Held, before |-> _attributes]
    /\ UNCHANGED _attributes
    /\ AttributesOnly

\* ------------------------------------------------------------- one call, whole
\* Network.create run alone against the committed rows: flush, supernet
\* lookup, parent choice, reparenting, commit.
CreateAlone(rows, o) ==
    LET found == SupernetsQuery(rows \cup {o}, o)
        placed == IF found = {} THEN o
                  ELSE [o EXCEPT !.parent_id =
                           (CHOOSE p \in MaxPrefix(found) : TRUE).id]
        moved == ReparentQuery(rows \cup {placed}, placed)
    IN  SetParent(rows, {r.id : r \in moved}, placed.id) \cup {placed}

\* Network.create called alone for each key of the sequence, in its order.
RECURSIVE CreateAll(_, _)
CreateAll(keys, n) ==
    IF n = 0 THEN {}
    ELSE CreateAlone(CreateAll(keys, n - 1),
                     NewRow(n, keys[n][1], keys[n][2], keys[n][3], keys[n][4]))

\* A call of Network.create by session s that raises before it reaches
\* the store.
Rejected(s) ==
    \/ \E addr \in Addresses, plen \in PrefixLengths :
           CreateParseError(s, addr, plen)
    \/ \E addr \in Addresses, plen \in PrefixLengths,
          attrs \in AttributeInputs :
           CreateBadAttributes(s, addr, plen, attrs)

\* A call of Network.create by session s that reaches the flush, for
\* sites S, versions V and CIDRs C (address and prefix length).
Call(s, S, V, C) ==
    \/ \E site \in S, ver \in V, c \in C :
           CreateDuplicate(s, site, ver, c[1], c[2])
    \/ \E site \in S, ver \in V, c \in C :
           CreateFlush(s, site, ver, c[1], c[2])

\* The steps of a call under way in session s.
Step(s) ==
    \/ \E r \in networks : LockSupernet(s, r)
    \/ SelectParent(s)
    \/ \E r \in networks : LockSubnet(s, r)
    \/ Reparent(s)
    \/ Commit(s)
    \/ StoreError(s)

\* Every CIDR a caller can write.
Cidrs == Addresses \X PrefixLengths
\* An address plan: the whole space, its lower and its upper half, and
\* the first address.
Plan == {<<0, 0>>, <<0, 1>>, <<2^(AddrBits - 1), 1>>, <<0, AddrBits>>}
\* The whole address space and its lower half.
Blocks == {<<0, 0>>, <<0, 1>>}
\* Two sites with the same address plan.
TwoSites == {1, 2}

\* One session creating IPv4 networks, one call after the other.
NextSeq == Rejected(1) \/ Call(1, SiteIds, {4}, Cidrs) \/ Step(1)

SpecSeq == Init /\ [][NextSeq]_vars

\* One session creating the networks of the plan in both versions.
NextPlan == Call(1, {1}, Versions, Plan) \/ Step(1)

SpecPlan == Init /\ [][NextPlan]_vars

\* One session adding sites and creating the networks of the plan in one
\* site.
NextSession ==
    \/ \E n \in SiteNames : SiteAdd(1, n)
    \/ Rejected(1)
    \/ Call(1, {1}, {4}, Plan)
    \/ Step(1)

SpecSession == Init /\ [][NextSession]_vars

\* The sessions creating two nested blocks in two sites side by side.
NextConc == \E s \in Sessions : Call(s, TwoSites, {4}, Blocks) \/ Step(s)

SpecConc == Init /\ [][NextConc]_vars

\* The sessions creating the networks of the plan in one site side by side.
NextLocks == \E s \in Sessions : Call(s, {1}, {4}, Plan) \/ Step(s)

SpecLocks == Init /\ [][NextLocks]_vars

\* What a caller does with session s besides Network.create.
Helpers(s) ==
    \/ \E n \in SiteNames : ModelAdd(s, n)
    \/ \E method \in {"Session.add", "Session.add_all"},
          objs \in SUBSET SiteNames : SessionAdd(s, method, objs)
    \/ \E attached \in BOOLEAN, kwargs \in KwargsInputs,
          adds \in SUBSET SiteNames, raises \in BOOLEAN,
          result \in MethodResults :
           FlushTransaction(s, attached, kwargs, adds, raises, result)
    \/ \E n \in SiteNames : GetOrCreate(s, n)
    \/ SessionCommit(s)

\* One session using the helpers.
NextUnit == Helpers(1)

SpecUnit == Init /\ [][NextUnit]_vars

\* The sessions getting or creating sites side by side and committing.
NextUnits ==
    \E s \in Sessions :
        \/ \E n \in SiteNames : GetOrCreate(s, n)
        \/ SessionCommit(s)

SpecUnits == Init /\ [][NextUnits]_vars

\* The attributes of one Network instance being set and read.
NextAttributes ==
    \/ \E d \in AttributeDicts : AttributesSet(d)
    \/ \E kind \in NonDicts : AttributesSetNonDict(kind)
    \/ AttributesGet

SpecAttributes == Init /\ [][NextAttributes]_vars

\* Everything the sessions can do.
Next ==
    \/ NextAttributes
    \/ \E s \in Sessions :
           \/ \E n \in SiteNames : SiteAdd(s, n)
           \/ Rejected(s)
           \/ Call(s, SiteIds, Versions, Cidrs)
           \/ Step(s)
           \/ Helpers(s)

Spec == Init /\ [][Next]_vars

\* ------------------------------------------------------------- properties
RowById(rows, id) == CHOOSE r \in rows : r.id = id

\* r's range lies within n's, with a strictly greater prefix_length.
ProperlyContained(r, n) ==
    /\ r.ip_version = n.ip_version
    /\ n.network_address <= r.network_address
    /\ n.broadcast_address >= r.broadcast_address
    /\ r.prefix_length > n.prefix_length

\* Which key is the parent of which: the tree without the surrogate ids.
ParentRelation(rows) ==
    {<<KeyOf(r), IF r.parent_id = NULL THEN <<>>
                 ELSE KeyOf(RowById(rows, r.parent_id))>> : r \in rows}

\* The orders in which the keys of a set can be inserted.
Orders(keys) ==
    {f \in [1..Cardinality(keys) -> keys] :
        \A i, j \in 1..Cardinality(keys) : i # j => f[i] # f[j]}

\* The last call of session s returned its row and nothing has run since.
Returned(s) == pc[s] = "idle" /\ last[s].status = "ok"

\* C1: every network with a parent is properly contained in its parent:
\* the parent's range encloses the child's and the child's prefix_length is
\* strictly greater.
C1_ContainedInParent ==
    \A c \in networks :
        c.parent_id # NULL =>
            \E p \in networks :
                /\ p.id = c.parent_id
                /\ p.network_address <= c.network_address
                /\ p.broadcast_address >= c.broadcast_address
                /\ c.prefix_length > p.prefix_length

\* C2: for the CIDRs created in one site, the final parent relation is the
\* same for every insertion order of that set.
C2_OrderIndependent ==
    (pc[1] = "idle" /\ \A r \in networks : r.site_id = 1) =>
        \A f \in Orders({KeyOf(r) : r \in networks}) :
            ParentRelation(CreateAll(f, Cardinality(networks)))
                = ParentRelation(networks)

\* The non-address networks of the new row's version that existed before
\* the call and enclose the new range with a smaller prefix_length.
Enclosing(before, n) ==
    {r \in before : ~r.is_ip /\ ProperlyContained(n, r)}

\* C3: right after a successful create the new row's parent is an enclosing
\* network of the largest prefix_length among those that existed before the
\* call, and it is NULL exactly when there was none.
C3_TightestParent ==
    \A s \in Sessions :
        Returned(s) =>
            LET n == RowById(networks, last[s].id)
                enclosing == Enclosing(last[s].pre, n)
            IN  /\ (n.parent_id = NULL) <=> (enclosing = {})
                /\ enclosing # {} =>
                       \E p \in enclosing :
                           /\ p.id = n.parent_id
                           /\ \A q \in enclosing :
                                  q.prefix_length <= p.prefix_length

\* A create has just returned a row whose parent was chosen among several
\* enclosing networks of different prefix_length.
C3_Witness ==
    \E s \in Sessions :
        /\ Returned(s)
        /\ \E p, q \in Enclosing(last[s].pre, RowById(networks, last[s].id)) :
               /\ p.prefix_length < q.prefix_length
               /\ RowById(networks, last[s].id).parent_id = q.id

\* C4: after a successful create of N every row that existed before, lies
\* properly within N and had N's chosen parent as its parent (NULL
\* included) has N as its parent.
C4_SubsumedReparented ==
    \A s \in Sessions :
        Returned(s) =>
            LET n == RowById(networks, last[s].id) IN
            \A r \in last[s].pre :
                (ProperlyContained(r, n) /\ r.parent_id = n.parent_id) =>
                    RowById(networks, r.id).parent_id = n.id

\* C5: no single address is the parent of another network.
C5_AddressesAreLeaves ==
    \A c \in networks :
        \A p \in networks : p.id = c.parent_id => ~p.is_ip

\* C6: the tree is partitioned by site: a parent has its child's site_id,
\* the discover-mode supernet query returns rows of the querying network's
\* site only, and a create leaves the parent_id of other sites' rows alone.
C6_PartitionedBySite ==
    /\ \A c \in networks :
           \A p \in networks : p.id = c.parent_id => p.site_id = c.site_id
    /\ \A s \in Sessions :
           pc[s] = "flushed" =>
               \A r \in SupernetsQuery(Visible(s), obj[s]) :
                   r.site_id = obj[s].site_id
    /\ \A s \in Sessions :
           Returned(s) =>
               \A r \in last[s].pre :
                   r.site_id # RowById(networks, last[s].id).site_id =>
                       RowById(networks, r.id).parent_id = r.parent_id

\* The row a returned call created, as the call constructed it.
Created(s) == [RowById(networks, last[s].id) EXCEPT !.parent_id = NULL]

\* The committed rows when the earlier of the two sessions' last calls
\* flushed its row.
Base == IF last[1].id < last[2].id THEN last[1].pre ELSE last[2].pre

\* C7: when two sessions have each created a network, the committed parent
\* relation is the one that running the two creates one after the other,
\* in one of the two orders, produces from the rows that were there before.
C7_AsIfOneAfterTheOther ==
    ( /\ Returned(1) /\ Returned(2)
      /\ {r.id : r \in networks}
             = {r.id : r \in Base} \cup {last[1].id, last[2].id}
      /\ \A r \in networks : r.site_id = 1 ) =>
        ParentRelation(networks) \in
            {ParentRelation(CreateAlone(CreateAlone(Base, Created(1)),
                                        Created(2))),
             ParentRelation(CreateAlone(CreateAlone(Base, Created(2)),
                                        Created(1)))}

\* C8: no two committed rows share (site_id, ip_version, network_address,
\* prefix_length), and a create that met a committed row with its key ended
\* in IntegrityError without adding a row of its own.
C8_UniqueCidr ==
    /\ \A r1, r2 \in networks : KeyOf(r1) = KeyOf(r2) => r1 = r2
    /\ \A s \in Sessions :
           last[s].status = "ok" =>
               \A r \in networks : KeyOf(r) = last[s].key => r.id = last[s].id
    /\ \A s \in Sessions :
           (last[s].error = "IntegrityError"
               /\ last[s].preNew \cap last[s].preSites = {}) =>
                   /\ last[s].id = NULL
                   /\ \E r \in networks : KeyOf(r) = last[s].key

\* A create ended in IntegrityError on the key of a row that the other
\* session's last create committed, while the same CIDR exists in another
\* site.
C8_Witness ==
    \E s, t \in Sessions :
        /\ s # t
        /\ last[s].error = "IntegrityError"
        /\ last[t].status = "ok"
        /\ last[t].key = last[s].key
        /\ \E r \in networks :
               /\ r.site_id # last[s].key[1]
               /\ r.network_address = last[s].key[3]
               /\ r.prefix_length = last[s].key[4]

\* C9: when a create has raised from the flush or after it, the committed
\* tables are what they were before the call: neither the new row nor a
\* parent_id it wrote is there.
C9_AllOrNothing ==
    \A s \in Sessions :
        (pc[s] = "idle" /\ last[s].status = "raised"
            /\ last[s].error \in {"IntegrityError", "OperationalError"}) =>
                /\ networks = last[s].pre
                /\ sites = last[s].preSites

\* A create raised after its UPDATE had re-pointed rows and after its flush
\* had written pending objects.
C9_Witness ==
    \E s \in Sessions :
        /\ pc[s] = "idle"
        /\ last[s].status = "raised"
        /\ last[s].moved # {}
        /\ last[s].preNew # {}

\* The session of s holds no pending or uncommitted change.
Clean(s) == new[s] = {} /\ flushed[s] = {} /\ ~InFlight(s) /\ upd[s] = {}

\* C10 as stated: after any exception of Network.create, the parse failure
\* of the cidr argument included, nothing is pending in the session.
C10_CleanAfterAnyFailure ==
    \A s \in Sessions :
        (pc[s] = "idle" /\ last[s].status = "raised") => Clean(s)

\* C10 as amended: after an exception raised in the try block nothing is
\* pending in the session; a cidr that does not parse raises before the try
\* block and leaves the session's pending objects pending.
C10_CleanAfterFailureInTry ==
    \A s \in Sessions :
        (pc[s] = "idle" /\ last[s].status = "raised") =>
            /\ last[s].at = "try" => Clean(s)
            /\ last[s].at = "parse" => new[s] = last[s].preNew

\* A create raised in the try block in a session that had objects pending.
C10_Witness ==
    \E s \in Sessions :
        /\ pc[s] = "idle"
        /\ last[s].status = "raised"
        /\ last[s].at = "try"
        /\ last[s].preNew # {}

\* C11: a wrapped operation called with dryrun=true that returns hands back
\* the method's result, leaves the session rolled back (nothing pending,
\* nothing flushed) and the committed store as it was; the method never
\* receives a dryrun keyword.
C11_DryRunLeavesNothing ==
    ret.op = "wrapped" =>
        /\ "dryrun" \notin ret.passed
        /\ (ret.error = "none" /\ ret.dryrun) =>
               /\ ret.value = ret.result
               /\ Clean(ret.session)
               /\ sites = ret.found.preSites

\* A dry run returned after its method had registered objects in a session
\* that already held pending and flushed ones, and the method received the
\* caller's other keyword.
C11_Witness ==
    /\ ret.op = "wrapped"
    /\ ret.error = "none"
    /\ ret.dryrun
    /\ ret.added # {}
    /\ ret.found.preNew # {}
    /\ ret.found.preFlushed # {}
    /\ ret.passed = {"force"}

\* C12: when the wrapped method or the flush after it raises, the exception
\* comes out as raised, the session is rolled back if the entity has one and
\* nothing the method registered stays pending or flushed; when nothing
\* raises and dryrun is false, what was pending is flushed and kept.
C12_RollbackOrFlush ==
    ret.op = "wrapped" =>
        LET s == ret.session
            before == ret.found.preNew \cup ret.found.preFlushed
        IN
        /\ ret.error # "none" =>
               /\ ret.attached => Clean(s)
               /\ (new[s] \cup flushed[s]) \subseteq before
               /\ ret.result = "none" <=> ret.error = "MethodError"
               /\ sites = ret.found.preSites
        /\ (ret.error = "none" /\ ~ret.dryrun) =>
               /\ new[s] = {}
               /\ flushed[s] = before \cup ret.added

\* A wrapped method raised after it had registered objects in a session
\* that already held pending ones.
C12_Witness ==
    /\ ret.op = "wrapped"
    /\ ret.error = "MethodError"
    /\ ret.attached
    /\ ret.added # {}
    /\ ~(ret.added \subseteq ret.found.preNew)
    /\ ret.found.preNew # {}

\* C13: get_or_create reports created = true exactly when the session saw
\* no row with the name before the call (committed, flushed or pending), so
\* a second call with the same name reports false; it returns that row, and
\* afterwards the session sees exactly one row with the name.
C13_CreatedOnlyOnce ==
    (ret.op = "get_or_create" /\ ret.error = "none") =>
        LET s == ret.session
            n == ret.arg
            before == ret.found.preSites \cup ret.found.preNew
                          \cup ret.found.preFlushed
        IN
        /\ ret.created <=> n \notin before
        /\ ret.value = n
        /\ Cardinality({place \in {"new", "flushed", "sites"} :
               n \in (CASE place = "new" -> new[s]
                        [] place = "flushed" -> flushed[s]
                        [] place = "sites" -> sites)}) = 1

\* A call of get_or_create found the row that was still pending in its
\* session.
C13_Witness ==
    /\ ret.op = "get_or_create"
    /\ ret.error = "none"
    /\ ~ret.created
    /\ ret.arg \in ret.found.preNew
    /\ ret.arg \in flushed[ret.session]

\* C14: with sessions interleaving get_or_create for the same name, whose
\* unique index admits one committed row, no call and no commit ends in a
\* uniqueness error.
C14_NoUniquenessError ==
    ret.error # "IntegrityError"

\* C15: Session.add and Session.add_all raise NotImplementedError for every
\* argument and leave the pending objects as they were; Model.add registers
\* the entity and returns it; the pending objects grow only through
\* Model.add, called directly, by get_or_create or by a wrapped method.
C15_OnlyModelAdd ==
    ret.op # "none" =>
        LET s == ret.session IN
        /\ ret.op \in {"Session.add", "Session.add_all"} =>
               /\ ret.error = "NotImplementedError"
               /\ new[s] = ret.found.preNew
               /\ flushed[s] = ret.found.preFlushed
        /\ ret.op = "Model.add" =>
               /\ ret.error = "none"
               /\ ret.value = ret.arg
               /\ new[s] = ret.found.preNew \cup {ret.arg}
        /\ ~(new[s] \subseteq ret.found.preNew) =>
               ret.op \in {"Model.add", "get_or_create", "wrapped"}

\* Session.add_all was called with objects that were not pending.
C15_Witness ==
    /\ ret.op = "Session.add_all"
    /\ ret.args # {}
    /\ ret.args \cap ret.found.preNew = {}
    /\ ret.found.preNew # {}

C17_RejectsNonStrings ==
    ret.op = "set" =>
        LET strings == /\ ret.kind = "dict"
                       /\ \A i \in ret.input :
                              i[1].type = "str" /\ i[2].type = "str"
        IN  /\ ret.error = "none" <=> strings
            /\ ret.kind # "dict" => ret.error = "TypeError"
            /\ ~strings => _attributes = ret.before
            /\ _attributes # ret.before => strings

\* A dict with a string key and an integer value was refused while the
\* instance held attributes set before.
C17_Witness ==
    /\ ret.op = "set"
    /\ ret.error = "ValueError"
    /\ ret.before # NoText
    /\ \E i \in ret.input : i[1].type = "str" /\ i[2].type = "int"

\* C18: a successful create of N changes the parent_id only of rows that
\* had N's parent as theirs and whose range lies within N's range; every
\* other row that existed before keeps its parent_id, also when N has a
\* parent.
C18_OutsideUntouched ==
    \A s \in Sessions :
        Returned(s) =>
            LET n == RowById(networks, last[s].id) IN
            \A r \in last[s].pre :
                RowById(networks, r.id).parent_id # r.parent_id =>
                    /\ r.parent_id = n.parent_id
                    /\ r.ip_version = n.ip_version
                    /\ n.network_address <= r.network_address
                    /\ n.broadcast_address >= r.broadcast_address

\* Following parent_id from id reaches NULL within fuel steps.
RECURSIVE ReachesRoot(_, _, _)
ReachesRoot(rows, id, fuel) ==
    IF id = NULL THEN TRUE
    ELSE IF fuel = 0 \/ ~\E r \in rows : r.id = id THEN FALSE
    ELSE ReachesRoot(rows, RowById(rows, id).parent_id, fuel - 1)

\* parent_id makes the rows a forest.
Forest(rows) ==
    \A r \in rows :
        /\ r.parent_id # r.id
        /\ r.parent_id # NULL => \E p \in rows : p.id = r.parent_id
        /\ ReachesRoot(rows, r.parent_id, Cardinality(rows))

\* C19: in every state the sessions' creates reach, failed ones included,
\* the committed rows, and the rows as each session sees them, form a
\* forest: a parent_id refers to another existing row and following it
\* ends at a root.
C19_Forest ==
    /\ Forest(networks)
    /\ \A s \in Sessions : Forest(Visible(s))

\* After a create that raised when it had re-pointed rows, and the
\* creates that followed, the committed rows hold a chain of three.
C19_Witness ==
    /\ \E s \in Sessions : last[s].status = "ok"
    /\ \E s \in Sessions : last[s].status = "raised" /\ last[s].moved # {}
    /\ \E a, b, c \in networks :
           a.parent_id = b.id /\ b.parent_id = c.id /\ c.parent_id = NULL

\* The rows the statement session s is executing has to lock.
Wanted(s) ==
    IF pc[s] = "flushed" THEN SupernetsQuery(Visible(s), obj[s])
    ELSE IF pc[s] = "placed" THEN ReparentQuery(Visible(s), obj[s])
    ELSE {}

\* Session s waits for a row that session t holds.
WaitsFor(s, t) ==
    \E r \in Wanted(s) : r.id \notin locks[s] /\ r.id \in locks[t]

\* C20: concurrent creates never deadlock: no state is reached in which
\* two creates each hold a row lock the other waits for, so that neither
\* can commit.
C20_NoDeadlock ==
    \A s, t \in Sessions : ~(s # t /\ WaitsFor(s, t) /\ WaitsFor(t, s))

====
